---- MODULE Spec2Model ----
(***************************************************************************)
(* Model of the lssa-treasury program: the treasury vault instructions of  *)
(* the guest binary (create_vault / send / deposit) and the M-of-N         *)
(* multisig handlers (add_member / change_threshold and the instructions   *)
(* the command-line tools build).  Account data is kept as bytes, and the  *)
(* borsh encoding of the persisted state is computed byte by byte.         *)
(***************************************************************************)
EXTENDS Integers, Sequences, FiniteSets, TLC

VARIABLES treasury, multisig, last, first_auth, a_signed, succ, treasury_claims,
          vaults_created

vars ==
    <<treasury, multisig, last, first_auth, a_signed, succ, treasury_claims, vaults_created>>

---------------------------------------------------------------------------
(* Bounds of the model *)

NumKeys == 2
NumDefs == 2
MaxAuthorized == 2
MaxVaults == 2
NumMemberKeys == 3
MaxCreateMembers == 3
MaxNonce == 2
MaxTagLen == 34

(* Program constants *)

IdLen == 32
MemberLimit == 10
VaultDataMin == 33

---------------------------------------------------------------------------
(* Bytes, identifiers and accounts *)

RECURSIVE ToLeBytes(_, _)
ToLeBytes(n, w) == IF w = 0 THEN <<>> ELSE <<n % 256>> \o ToLeBytes(n \div 256, w - 1)

RECURSIVE FromLeBytes(_)
FromLeBytes(b) == IF b = <<>> THEN 0 ELSE b[1] + 256 * FromLeBytes(Tail(b))

RECURSIVE Flatten(_)
Flatten(ss) == IF ss = <<>> THEN <<>> ELSE Head(ss) \o Flatten(Tail(ss))

Range(s) == {s[i] : i \in 1..Len(s)}

\* A 32-byte key, written as the tests write it: [k; 32].
Key(k) == [i \in 1..IdLen |-> k]

Keys == {Key(k) : k \in 1..NumKeys}

\* Token definitions, the recipient, a holding that is no PDA and the multisig
\* state account have ids of their own, apart from the signing keys.
DefIds == {Key(20 + d) : d \in 1..NumDefs}

RecipientId == Key(41)

ForeignHoldingId == Key(42)

MultisigStateId == Key(43)

TreasuryProgramId == <<7, 7, 7, 7, 7, 7, 7, 7>>

TokenProgramId == <<5, 5, 5, 5, 5, 5, 5, 5>>

DefaultProgramId == <<0, 0, 0, 0, 0, 0, 0, 0>>

\* AccountId::from((program_id, seed)): a hash of the program id and the seed.
\* The stand-in mixes every seed byte with a program-id word and sets the top
\* bit: on seeds of bytes below 128 it is injective, and it never yields one
\* of the ids above.
Derive(program_id, seed) ==
    [i \in 1..IdLen |-> 128 + ((program_id[((i - 1) % 8) + 1] + seed[i]) % 128)]

vault_holding_pda_seed(token_definition_id) == token_definition_id

compute_vault_holding_pda(program_id, token_definition_id) ==
    Derive(program_id, vault_holding_pda_seed(token_definition_id))

TREASURY_STATE_SEED ==
    [i \in 1..IdLen |->
        IF i <= 14 THEN <<116, 114, 101, 97, 115, 117, 114, 121, 95, 115, 116, 97, 116, 101>>[i]
        ELSE 0]

compute_treasury_state_pda(program_id) == Derive(program_id, TREASURY_STATE_SEED)

SeedTooLongMutant(src) == Len(src) >= IdLen

SeedTooLong(src) == Len(src) > IdLen

\* The constant seed of compute_pda_from_seeds: the bytes of the tag, padded
\* on the right with zero bytes to 32, or an error for a tag that is too long.
const_seed(value) ==
    IF SeedTooLong(value) THEN [ok |-> FALSE, err |-> "SeedTooLong", bytes |-> <<>>]
    ELSE [ok |-> TRUE, err |-> "none",
          bytes |-> [i \in 1..IdLen |-> IF i <= Len(value) THEN value[i] ELSE 0]]

PdaError(err) == [ok |-> FALSE, err |-> err, id |-> <<>>]

\* The account map of the tool holds an id for the accounts resolved so far.
AccountNames == {"treasury_state_acct", "token_definition", "vault_holding", "amount"}

Unresolved == <<>>

\* compute_pda_from_seeds of the command-line tool: one seed only; a constant
\* seed is padded, an account seed is the id the account map holds for the
\* path, an argument seed is not supported.  The id is derived as on chain.
compute_pda_from_seeds(seeds, program_id, account_map) ==
    IF Len(seeds) # 1 THEN PdaError("MultiSeed")
    ELSE
      LET seed == seeds[1]
      IN CASE seed.kind = "Const" ->
                IF ~const_seed(seed.value).ok THEN PdaError("SeedTooLong")
                ELSE [ok |-> TRUE, err |-> "none",
                      id |-> Derive(program_id, const_seed(seed.value).bytes)]
           [] seed.kind = "Account" ->
                IF account_map[seed.path] = Unresolved THEN PdaError("UnresolvedAccount")
                ELSE [ok |-> TRUE, err |-> "none",
                      id |-> Derive(program_id, account_map[seed.path])]
           [] seed.kind = "Arg" -> PdaError("ArgSeed")

IdlSeedConst(value) == [kind |-> "Const", value |-> value, path |-> ""]

IdlSeedAccount(path) == [kind |-> "Account", value |-> <<>>, path |-> path]

IdlSeedArg(path) == [kind |-> "Arg", value |-> <<>>, path |-> path]

IdlTreasuryStateValueMutant ==
    <<116, 114, 101, 97, 115, 117, 114, 121, 45, 115, 116, 97, 116, 101>>

\* "treasury_state", the constant seed the IDL gives the treasury_state_acct.
IdlTreasuryStateValue ==
    <<116, 114, 101, 97, 115, 117, 114, 121, 95, 115, 116, 97, 116, 101>>

IdlTreasuryStateSeeds == <<IdlSeedConst(IdlTreasuryStateValue)>>

\* The seed the IDL gives the vault_holding: the account named token_definition.
IdlVaultHoldingSeeds == <<IdlSeedAccount("token_definition")>>

DefaultAccount ==
    [program_owner |-> DefaultProgramId, balance |-> 0, data |-> <<>>, nonce |-> 0]

AccountWithMetadata(account, is_authorized, account_id) ==
    [account |-> account, is_authorized |-> is_authorized, account_id |-> account_id]

PostNewMarked(account) == [account |-> account, claimed |-> TRUE]

PostNew(account) == [account |-> account, claimed |-> FALSE]

PostNewClaimed(account) == [account |-> account, claimed |-> TRUE]

---------------------------------------------------------------------------
(* TreasuryState and its borsh encoding: u64 vault_count, then the vector  *)
(* of 32-byte keys as a u32 length followed by the keys.                   *)

DefaultTreasuryState == [vault_count |-> 0, authorized_accounts |-> <<>>]

BorshTreasuryState(state) ==
    ToLeBytes(state.vault_count, 8)
        \o ToLeBytes(Len(state.authorized_accounts), 4)
        \o Flatten(state.authorized_accounts)

FromSliceTreasuryState(data) ==
    IF Len(data) < 12 THEN [ok |-> FALSE, state |-> DefaultTreasuryState]
    ELSE LET n == FromLeBytes(SubSeq(data, 9, 12))
         IN IF Len(data) # 12 + IdLen * n
            THEN [ok |-> FALSE, state |-> DefaultTreasuryState]
            ELSE [ok |-> TRUE,
                  state |->
                    [vault_count |-> FromLeBytes(SubSeq(data, 1, 8)),
                     authorized_accounts |->
                        [j \in 1..n |->
                            SubSeq(data, 12 + IdLen * (j - 1) + 1, 12 + IdLen * j)]]]

---------------------------------------------------------------------------
(* Results of a handler *)

NoArgs == [amount |-> 0, authorized_accounts |-> <<>>, key |-> <<>>, threshold |-> 0]

Ok(post_states, chained_calls) ==
    [ok |-> TRUE, err |-> "none", account_index |-> 0, panic |-> FALSE,
     post_states |-> post_states, chained_calls |-> chained_calls]

ErrMutant(err, account_index) ==
    [ok |-> FALSE, err |-> err, account_index |-> account_index, panic |-> FALSE,
     post_states |-> <<PostNew(DefaultAccount)>>, chained_calls |-> <<>>]

Err(err, account_index) ==
    [ok |-> FALSE, err |-> err, account_index |-> account_index, panic |-> FALSE,
     post_states |-> <<>>, chained_calls |-> <<>>]

Panic(err) ==
    [ok |-> FALSE, err |-> err, account_index |-> 0, panic |-> TRUE,
     post_states |-> <<>>, chained_calls |-> <<>>]

\* risc0_zkvm::serde::to_vec of a byte vector: the length, then one word per byte.
Risc0ToVec(bytes) == <<Len(bytes)>> \o bytes

ChainedCall(program_id, instruction_data, pre_states, pda_seeds) ==
    [program_id |-> program_id, instruction_data |-> instruction_data,
     pre_states |-> pre_states, pda_seeds |-> pda_seeds]

---------------------------------------------------------------------------
(* The vault instructions of the guest program *)

NoAuthorizedAccountsMutant(authorized_accounts) == FALSE

NoAuthorizedAccounts(authorized_accounts) == authorized_accounts = <<>>

IsFirstTimeMutant(treasury_state_acct) == treasury_state_acct.account.balance = 0

IsFirstTime(treasury_state_acct) == treasury_state_acct.account = DefaultAccount

UpdateMerging(state, authorized_accounts) ==
    [vault_count |-> state.vault_count + 1,
     authorized_accounts |-> state.authorized_accounts \o authorized_accounts]

UpdateNotCounting(state, authorized_accounts) ==
    [vault_count |-> IF state.vault_count = 0 THEN 1 ELSE state.vault_count,
     authorized_accounts |-> authorized_accounts]

\* state.vault_count += 1; state.authorized_accounts = authorized_accounts;
UpdateTreasuryState(state, authorized_accounts) ==
    [vault_count |-> state.vault_count + 1, authorized_accounts |-> authorized_accounts]

create_vault(treasury_state_acct, token_definition, vault_holding, token_name, initial_supply, token_program_id, authorized_accounts) ==
    IF NoAuthorizedAccounts(authorized_accounts) THEN Err("NoAuthorizedAccounts", 0)
    ELSE
      LET is_first_time == IsFirstTime(treasury_state_acct)
          dec == IF is_first_time
                 THEN [ok |-> TRUE, state |-> DefaultTreasuryState]
                 ELSE FromSliceTreasuryState(treasury_state_acct.account.data)
      IN IF ~dec.ok THEN Err("DeserializationError", 0)
         ELSE
           LET state == UpdateTreasuryState(dec.state, authorized_accounts)
               treasury_post ==
                   [treasury_state_acct.account EXCEPT !.data = BorshTreasuryState(state)]
               treasury_post_state ==
                   IF is_first_time THEN PostNewClaimed(treasury_post)
                   ELSE PostNew(treasury_post)
               token_ix_bytes == <<0>> \o ToLeBytes(initial_supply, 16) \o token_name
               vault_holding_authorized == [vault_holding EXCEPT !.is_authorized = TRUE]
               chained_call ==
                   ChainedCall(token_program_id, Risc0ToVec(token_ix_bytes),
                               <<token_definition, vault_holding_authorized>>,
                               <<vault_holding_pda_seed(token_definition.account_id)>>)
           IN Ok(<<treasury_post_state,
                   PostNew(token_definition.account),
                   PostNew(vault_holding.account)>>,
                 <<chained_call>>)

TransferIxBytesUntagged(amount) == <<0>> \o ToLeBytes(amount, 16) \o <<0, 0, 0, 0, 0, 0>>

\* The 23 bytes of the Token transfer: tag 0x01, the amount as a little-endian
\* u128, and six bytes left zero.
TransferIxBytes(amount) == <<1>> \o ToLeBytes(amount, 16) \o <<0, 0, 0, 0, 0, 0>>

IsListedMutant(state, signer_bytes) == TRUE

IsListed(state, signer_bytes) ==
    \E i \in 1..Len(state.authorized_accounts) : state.authorized_accounts[i] = signer_bytes

VaultDataTooShortMutant(vault_data) == Len(vault_data) <= VaultDataMin

VaultDataTooShort(vault_data) == Len(vault_data) < VaultDataMin

DefinitionIdFromStart(vault_data) == SubSeq(vault_data, 1, 32)

\* def_id_bytes.copy_from_slice(&vault_data[1..33])
DefinitionIdBytes(vault_data) == SubSeq(vault_data, 2, 33)

send(treasury_state_acct, vault_holding, recipient, signer, amount, token_program_id) ==
    LET dec == FromSliceTreasuryState(treasury_state_acct.account.data)
    IN IF ~dec.ok THEN Err("DeserializationError", 0)
       ELSE IF ~IsListed(dec.state, signer.account_id) THEN Err("Unauthorized", 0)
       ELSE IF ~signer.is_authorized THEN Err("Unauthorized", 0)
       ELSE
         LET vault_data == vault_holding.account.data
         IN IF VaultDataTooShort(vault_data) THEN Err("DeserializationError", 1)
            ELSE
              LET definition_id == DefinitionIdBytes(vault_data)
                  token_ix_bytes == TransferIxBytes(amount)
                  vault_authorized == [vault_holding EXCEPT !.is_authorized = TRUE]
                  chained_call ==
                      ChainedCall(token_program_id, Risc0ToVec(token_ix_bytes),
                                  <<vault_authorized, recipient>>,
                                  <<vault_holding_pda_seed(definition_id)>>)
              IN Ok(<<PostNew(treasury_state_acct.account),
                      PostNew(vault_holding.account),
                      PostNew(recipient.account),
                      PostNew(signer.account)>>,
                    <<chained_call>>)

DepositRaisingFlag(treasury_state_acct, sender_holding, vault_holding, amount, token_program_id) ==
    LET token_ix_bytes == TransferIxBytes(amount)
        chained_call ==
            ChainedCall(token_program_id, Risc0ToVec(token_ix_bytes),
                        <<[sender_holding EXCEPT !.is_authorized = TRUE], vault_holding>>,
                        <<>>)
    IN Ok(<<PostNew(treasury_state_acct.account),
            PostNew(sender_holding.account),
            PostNew(vault_holding.account)>>,
          <<chained_call>>)

deposit(treasury_state_acct, sender_holding, vault_holding, amount, token_program_id) ==
    LET token_ix_bytes == TransferIxBytes(amount)
        chained_call ==
            ChainedCall(token_program_id, Risc0ToVec(token_ix_bytes),
                        <<sender_holding, vault_holding>>, <<>>)
    IN Ok(<<PostNew(treasury_state_acct.account),
            PostNew(sender_holding.account),
            PostNew(vault_holding.account)>>,
          <<chained_call>>)

\* build_transfer_instruction of the handler kept in treasury_program: the tag
\* and the amount, 17 bytes, cut into chunks of 4 that are each copied into a
\* 4-byte word; copy_from_slice aborts on a chunk of another length.
build_transfer_instruction(amount) ==
    LET instruction == <<1>> \o ToLeBytes(amount, 16)
        chunks == (Len(instruction) + 3) \div 4
    IN IF Len(instruction) % 4 # 0 THEN [ok |-> FALSE, words |-> <<>>]
       ELSE [ok |-> TRUE,
             words |-> [c \in 1..chunks |->
                          FromLeBytes(SubSeq(instruction, 4 * c - 3, 4 * c))]]

\* deposit::handle of treasury_program: with another number of accounts than 3
\* it returns an output with no post-state and no chained call.
deposit_handle(accounts, amount, token_program_id) ==
    IF Len(accounts) # 3 THEN Ok(<<>>, <<>>)
    ELSE
      LET instruction_data == build_transfer_instruction(amount)
          sender_meta == AccountWithMetadata(accounts[2].account, TRUE, accounts[2].account_id)
          vault_meta == AccountWithMetadata(accounts[3].account, FALSE, accounts[3].account_id)
          chained_call ==
              ChainedCall(token_program_id, instruction_data.words,
                          <<sender_meta, vault_meta>>, <<>>)
      IN IF ~instruction_data.ok THEN Panic("LengthMismatch")
         ELSE Ok(<<PostNew(accounts[1].account),
                   PostNew(accounts[2].account),
                   PostNew(accounts[3].account)>>,
                 <<chained_call>>)

---------------------------------------------------------------------------
(* Inputs of the vault instructions *)

TokenName == <<84, 82, 83, 89, 0, 0>>

Amounts == {0, 1000}

Supplies == {1000000}

\* A token holding as the Token program lays it out: an account-type byte,
\* the 32-byte definition id, the balance as a u128.
HoldingData(definition_id, balance) == <<1>> \o definition_id \o ToLeBytes(balance, 16)

TokenOwned(data) == [DefaultAccount EXCEPT !.program_owner = TokenProgramId, !.data = data]

\* The accounts a caller can put at the vault position: the vault PDA of a
\* definition (not yet created, created, with data one byte too short to hold
\* a definition id) and holdings that are not PDAs of the treasury program;
\* for the first definition also the vault PDA with data that ends with the
\* definition id.
VaultCandidates ==
    UNION {
        { AccountWithMetadata(DefaultAccount, FALSE, compute_vault_holding_pda(TreasuryProgramId, d)),
          AccountWithMetadata(TokenOwned(HoldingData(d, 1000000)), FALSE,
                              compute_vault_holding_pda(TreasuryProgramId, d)),
          AccountWithMetadata(TokenOwned(SubSeq(HoldingData(d, 1000000), 1, VaultDataMin - 1)),
                              FALSE, compute_vault_holding_pda(TreasuryProgramId, d)) }
        \cup { AccountWithMetadata(TokenOwned(HoldingData(d, 1000000)), FALSE, ForeignHoldingId) }
        : d \in DefIds }
    \cup { AccountWithMetadata(TokenOwned(SubSeq(HoldingData(Key(21), 1000000), 1, VaultDataMin)),
                               FALSE, compute_vault_holding_pda(TreasuryProgramId, Key(21))) }

TokenDefinitions == {AccountWithMetadata(DefaultAccount, FALSE, d) : d \in DefIds}

KeyAccounts(flags) == {AccountWithMetadata(DefaultAccount, f, k) : f \in flags, k \in Keys}

Recipients == {AccountWithMetadata(TokenOwned(HoldingData(d, 0)), FALSE, RecipientId) : d \in DefIds}

\* The holdings a deposit is made from: a holding of the first token for every
\* key, with and without the owner's signature.
Senders ==
    {AccountWithMetadata(TokenOwned(HoldingData(Key(21), 1000)), f, k) :
        f \in BOOLEAN, k \in Keys}

AuthLists == UNION {[1..n -> Keys] : n \in 0..MaxAuthorized}

TreasuryMeta ==
    AccountWithMetadata(treasury, FALSE, compute_treasury_state_pda(TreasuryProgramId))

\* The host applies a post-state: a claimed account becomes owned by the program.
Commit(post) ==
    IF post.claimed THEN [post.account EXCEPT !.program_owner = TreasuryProgramId]
    ELSE post.account

VaultCount ==
    LET dec == FromSliceTreasuryState(treasury.data)
    IN IF dec.ok THEN dec.state.vault_count ELSE 0

\* Some member of the first authorized set is passed with is_authorized = TRUE.
SignedByFirst(pre_states, auth) ==
    \E i \in 1..Len(pre_states) :
        pre_states[i].is_authorized /\ pre_states[i].account_id \in auth

Record(op, pre_states, args, out) ==
    [op |-> op, pre_states |-> pre_states, args |-> args, out |-> out]

\* One transaction: the handler runs on the pre-states and, when it returns
\* Ok, its first post-state replaces the treasury account.  With track, the
\* history of the first authorized set is kept as well; treasury_claims counts
\* the treasury post-states that were marked as newly claimed and
\* vaults_created the CreateVault calls that succeeded.
VaultStep(op, pre_states, args, out, track) ==
    /\ last' = Record(op, pre_states, args, out)
    /\ treasury' = IF out.ok /\ out.post_states # <<>>
                   THEN Commit(out.post_states[1]) ELSE treasury
    /\ first_auth' = IF track /\ first_auth = {} /\ op = "CreateVault" /\ out.ok
                     THEN Range(args.authorized_accounts)
                     ELSE first_auth
    /\ a_signed' = (a_signed \/ (track /\ SignedByFirst(pre_states, first_auth)))
    /\ treasury_claims' = IF out.ok /\ out.post_states # <<>> /\ out.post_states[1].claimed
                          THEN treasury_claims + 1 ELSE treasury_claims
    /\ vaults_created' = IF op = "CreateVault" /\ out.ok
                         THEN vaults_created + 1 ELSE vaults_created
    /\ UNCHANGED <<multisig, succ>>

CreateVaultCall(track) ==
    /\ last.op = "none"
    /\ \E td \in TokenDefinitions, vh \in VaultCandidates, aa \in AuthLists,
       supply \in Supplies :
        /\ VaultCount < MaxVaults
        /\ VaultStep("CreateVault", <<TreasuryMeta, td, vh>>,
                     [NoArgs EXCEPT !.amount = supply, !.authorized_accounts = aa],
                     create_vault(TreasuryMeta, td, vh, TokenName, supply, TokenProgramId, aa),
                     track)

SendCall(track) ==
    /\ last.op = "none"
    /\ \E vh \in VaultCandidates, recipient \in Recipients,
       signer \in KeyAccounts(BOOLEAN), amount \in Amounts :
        VaultStep("Send", <<TreasuryMeta, vh, recipient, signer>>,
                  [NoArgs EXCEPT !.amount = amount],
                  send(TreasuryMeta, vh, recipient, signer, amount, TokenProgramId),
                  track)

DepositCall(track) ==
    /\ last.op = "none"
    /\ \E sender \in Senders, vh \in VaultCandidates, amount \in Amounts,
          treasury_flag \in BOOLEAN, vault_flag \in BOOLEAN :
        LET treasury_state_acct == [TreasuryMeta EXCEPT !.is_authorized = treasury_flag]
            vault_holding == [vh EXCEPT !.is_authorized = vault_flag]
        IN VaultStep("Deposit", <<treasury_state_acct, sender, vault_holding>>,
                     [NoArgs EXCEPT !.amount = amount],
                     deposit(treasury_state_acct, sender, vault_holding, amount,
                             TokenProgramId),
                     track)

\* deposit::handle is given the account list as it comes: 2, 3 or 4 accounts.
DepositHandle ==
    /\ last.op = "none"
    /\ \E sender \in Senders, vh \in VaultCandidates, amount \in Amounts, n \in 2..4 :
        LET extra == AccountWithMetadata(TokenOwned(HoldingData(Key(21), 0)), FALSE, RecipientId)
            accounts == SubSeq(<<TreasuryMeta, sender, vh, extra>>, 1, n)
        IN VaultStep("DepositHandle", accounts, [NoArgs EXCEPT !.amount = amount],
                     deposit_handle(accounts, amount, TokenProgramId), FALSE)

CreateVault == CreateVaultCall(FALSE)

Send == SendCall(FALSE)

Deposit == DepositCall(FALSE)

TrackedCreateVault == CreateVaultCall(TRUE)

TrackedSend == SendCall(TRUE)

TrackedDeposit == DepositCall(TRUE)

---------------------------------------------------------------------------
(* MultisigState and its borsh encoding: u8 threshold, the members as a    *)
(* u32 length followed by the 32-byte keys, u8 member_count, u64 nonce.    *)

MultisigStateNew(threshold, members) ==
    [threshold |-> threshold, members |-> members,
     member_count |-> Len(members) % 256, nonce |-> 0]

BorshMultisigState(state) ==
    <<state.threshold>>
        \o ToLeBytes(Len(state.members), 4)
        \o Flatten(state.members)
        \o <<state.member_count>>
        \o ToLeBytes(state.nonce, 8)

FromSliceMultisigState(data) ==
    IF Len(data) < 5 THEN [ok |-> FALSE, state |-> MultisigStateNew(0, <<>>)]
    ELSE LET n == FromLeBytes(SubSeq(data, 2, 5))
         IN IF Len(data) # 14 + IdLen * n
            THEN [ok |-> FALSE, state |-> MultisigStateNew(0, <<>>)]
            ELSE [ok |-> TRUE,
                  state |->
                    [threshold |-> data[1],
                     members |->
                        [j \in 1..n |-> SubSeq(data, 5 + IdLen * (j - 1) + 1, 5 + IdLen * j)],
                     member_count |-> data[5 + IdLen * n + 1],
                     nonce |-> FromLeBytes(SubSeq(data, 5 + IdLen * n + 2, 14 + IdLen * n))]]

is_member(state, key) == \E i \in 1..Len(state.members) : state.members[i] = key

\* The number of the given signer keys that are members.
count_valid_signers(state, signers) ==
    Cardinality({i \in 1..Len(signers) : is_member(state, signers[i])})

---------------------------------------------------------------------------
(* The multisig handlers *)

AuthorizedSignersMutant(accounts) ==
    [i \in 1..(Len(accounts) - 1) |-> accounts[i + 1].account_id]

\* accounts[1..].iter().filter(|acc| acc.is_authorized).map(id bytes)
AuthorizedSigners(accounts) ==
    LET rest == SelectSeq(Tail(accounts), LAMBDA acc : acc.is_authorized)
    IN [i \in 1..Len(rest) |-> rest[i].account_id]

ThresholdMetMutant(valid_signers, threshold) == valid_signers + 1 >= threshold

ThresholdMetAlways(valid_signers, threshold) == TRUE

ThresholdMet(valid_signers, threshold) == valid_signers >= threshold

AddMemberApplyMutant(state, new_member) ==
    [state EXCEPT !.members = Append(@, new_member), !.member_count = @ + 1]

AddMemberApplyFront(state, new_member) ==
    [state EXCEPT !.members = <<new_member>> \o @,
                  !.member_count = @ + 1,
                  !.nonce = @ + 1]

AddMemberApply(state, new_member) ==
    [state EXCEPT !.members = Append(@, new_member),
                  !.member_count = @ + 1,
                  !.nonce = @ + 1]

AlreadyMemberMutant(state, new_member) == FALSE

AlreadyMember(state, new_member) == is_member(state, new_member)

BelowMemberLimitMutant(state) == state.member_count <= MemberLimit

BelowMemberLimit(state) == state.member_count < MemberLimit

MultisigPost(multisig_account, state) ==
    PostNew([multisig_account.account EXCEPT !.data = BorshMultisigState(state)])

add_member(accounts, new_member) ==
    IF Len(accounts) < 2 THEN Panic("MalformedAccountList")
    ELSE
      LET multisig_account == accounts[1]
          authorized_signers == AuthorizedSigners(accounts)
          dec == FromSliceMultisigState(multisig_account.account.data)
      IN IF ~dec.ok THEN Panic("DeserializationError")
         ELSE IF ~ThresholdMet(count_valid_signers(dec.state, authorized_signers),
                               dec.state.threshold)
              THEN Panic("InsufficientSignatures")
         ELSE IF AlreadyMember(dec.state, new_member) THEN Panic("DuplicateMember")
         ELSE IF ~BelowMemberLimit(dec.state) THEN Panic("MemberLimitExceeded")
         ELSE Ok(<<MultisigPost(multisig_account, AddMemberApply(dec.state, new_member))>>, <<>>)

GateThresholdNew(state, new_threshold) == new_threshold

\* The threshold the signer gate of ChangeThreshold compares with: the stored one.
GateThreshold(state, new_threshold) == state.threshold

ThresholdWithinCountMutant(new_threshold, state) == new_threshold <= state.member_count + 1

ThresholdWithinCount(new_threshold, state) == new_threshold <= state.member_count

ChangeThresholdApplyCount(state, new_threshold) ==
    [state EXCEPT !.threshold = new_threshold,
                  !.member_count = new_threshold,
                  !.nonce = @ + 1]

ChangeThresholdApply(state, new_threshold) ==
    [state EXCEPT !.threshold = new_threshold, !.nonce = @ + 1]

change_threshold(accounts, new_threshold) ==
    IF Len(accounts) < 2 THEN Panic("MalformedAccountList")
    ELSE
      LET multisig_account == accounts[1]
          authorized_signers == AuthorizedSigners(accounts)
          dec == FromSliceMultisigState(multisig_account.account.data)
      IN IF ~dec.ok THEN Panic("DeserializationError")
         ELSE IF ~ThresholdMet(count_valid_signers(dec.state, authorized_signers),
                               GateThreshold(dec.state, new_threshold))
              THEN Panic("InsufficientSignatures")
         ELSE IF ~(new_threshold >= 1) THEN Panic("InvalidThreshold")
         ELSE IF ~ThresholdWithinCount(new_threshold, dec.state) THEN Panic("InvalidThreshold")
         ELSE Ok(<<MultisigPost(multisig_account,
                                ChangeThresholdApply(dec.state, new_threshold))>>, <<>>)

CreateMultisigArgsRefusedMutant(threshold, members) == threshold >= Len(members)

\* The tool that builds CreateMultisig refuses only a threshold above the
\* number of members given.
CreateMultisigArgsRefused(threshold, members) == threshold > Len(members)

\* CreateMultisig as section 4.2 states it.
create_multisig(accounts, threshold, members) ==
    IF Len(accounts) < 1 THEN Err("MalformedAccountList", 0)
    ELSE IF CreateMultisigArgsRefused(threshold, members) THEN Err("InvalidThreshold", 0)
    ELSE Ok(<<PostNewClaimed([accounts[1].account EXCEPT
                  !.data = BorshMultisigState(MultisigStateNew(threshold, members))])>>,
            <<>>)

RemoveHead(members, key) == Tail(members)

RECURSIVE RemoveFirst(_, _)
RemoveFirst(members, key) ==
    IF members = <<>> THEN <<>>
    ELSE IF Head(members) = key THEN Tail(members)
    ELSE <<Head(members)>> \o RemoveFirst(Tail(members), key)

\* RemoveMember as section 4.2 states it: the threshold is not looked at.
remove_member(accounts, member) ==
    LET dec == FromSliceMultisigState(accounts[1].account.data)
    IN IF ~dec.ok THEN Err("DeserializationError", 0)
       ELSE IF ~ThresholdMet(count_valid_signers(dec.state, AuthorizedSigners(accounts)),
                             dec.state.threshold)
            THEN Err("InsufficientSignatures", 0)
       ELSE IF ~is_member(dec.state, member) THEN Err("NotAMember", 0)
       ELSE Ok(<<MultisigPost(accounts[1],
                    [dec.state EXCEPT !.members = RemoveFirst(@, member),
                                      !.member_count = @ - 1,
                                      !.nonce = @ + 1])>>, <<>>)

\* Execute as section 4.2 states it; the transfer is kept as the one chained call.
execute(accounts, recipient, amount) ==
    LET dec == FromSliceMultisigState(accounts[1].account.data)
    IN IF ~dec.ok THEN Err("DeserializationError", 0)
       ELSE IF ~ThresholdMet(count_valid_signers(dec.state, AuthorizedSigners(accounts)),
                             dec.state.threshold)
            THEN Err("InsufficientSignatures", 0)
       ELSE Ok(<<MultisigPost(accounts[1], [dec.state EXCEPT !.nonce = @ + 1])>>,
               <<[recipient |-> recipient, amount |-> amount]>>)

---------------------------------------------------------------------------
(* Inputs of the multisig instructions *)

MemberKeys == {Key(k) : k \in 1..NumMemberKeys}

\* The signer accounts of a call, in key order: every key is left out or
\* passed with the signature flag, the first key is also passed without it;
\* and one list that passes the first key twice with the flag.
RECURSIVE SignerListsUpTo(_)
SignerListsUpTo(k) ==
    IF k = 0 THEN {<<>>}
    ELSE LET shorter == SignerListsUpTo(k - 1)
         IN shorter
            \cup {Append(s, AccountWithMetadata(DefaultAccount, f, Key(k))) :
                    s \in shorter, f \in IF k = 1 THEN BOOLEAN ELSE {TRUE}}

SignerLists ==
    SignerListsUpTo(NumMemberKeys)
        \cup {<<AccountWithMetadata(DefaultAccount, TRUE, Key(1)),
                AccountWithMetadata(DefaultAccount, TRUE, Key(1))>>}

\* The member lists CreateMultisig is called with: the first n keys, or the
\* first key n times (the tool asks for at least one member).
CreateLists ==
    {[i \in 1..n |-> Key(i)] : n \in 1..MaxCreateMembers}
        \cup {[i \in 1..n |-> Key(1)] : n \in 2..MaxCreateMembers}
        \cup {[i \in 1..MemberLimit |-> Key(i)]}

\* The keys AddMember is asked to add: the member keys and one key that is in
\* no member list.
NewMemberKeys == MemberKeys \cup {Key(MemberLimit + 1)}

Thresholds == 0..(NumMemberKeys + 1)

MultisigMeta == AccountWithMetadata(multisig, FALSE, MultisigStateId)

MultisigDecoded == FromSliceMultisigState(multisig.data)

Mutating == {"AddMember", "RemoveMember", "ChangeThreshold", "Execute"}

\* One transaction on the multisig account: the state before the call and the
\* count the signer gate sees are kept with the outcome.
MultisigStep(op, accounts, args, out) ==
    /\ last' = [op |-> op, pre_states |-> accounts, args |-> args, out |-> out,
                decoded |-> MultisigDecoded.ok,
                before |-> MultisigDecoded.state,
                valid |-> IF Len(accounts) = 0 THEN 0
                          ELSE count_valid_signers(MultisigDecoded.state,
                                                   AuthorizedSigners(accounts))]
    /\ multisig' = IF out.ok THEN Commit(out.post_states[1]) ELSE multisig
    /\ succ' = IF op = "CreateMultisig" /\ out.ok THEN 0
               ELSE IF out.ok THEN succ + 1 ELSE succ
    /\ UNCHANGED <<treasury, first_auth, a_signed, treasury_claims, vaults_created>>

CreateMultisig ==
    /\ last.op = "none"
    /\ \E threshold \in Thresholds, members \in CreateLists :
        /\ multisig = DefaultAccount
        /\ MultisigStep("CreateMultisig", <<MultisigMeta>>,
                        [NoArgs EXCEPT !.threshold = threshold, !.authorized_accounts = members],
                        create_multisig(<<MultisigMeta>>, threshold, members))

AddMember ==
    /\ last.op = "none"
    /\ \E signers \in SignerLists, new_member \in NewMemberKeys :
        /\ MultisigDecoded.state.nonce < MaxNonce
        /\ MultisigStep("AddMember", <<MultisigMeta>> \o signers,
                        [NoArgs EXCEPT !.key = new_member],
                        add_member(<<MultisigMeta>> \o signers, new_member))

ChangeThreshold ==
    /\ last.op = "none"
    /\ \E signers \in SignerLists, new_threshold \in Thresholds :
        /\ MultisigDecoded.state.nonce < MaxNonce
        /\ MultisigStep("ChangeThreshold", <<MultisigMeta>> \o signers,
                        [NoArgs EXCEPT !.threshold = new_threshold],
                        change_threshold(<<MultisigMeta>> \o signers, new_threshold))

RemoveMember ==
    /\ last.op = "none"
    /\ \E signers \in SignerLists, member \in MemberKeys :
        /\ MultisigDecoded.state.nonce < MaxNonce
        /\ MultisigStep("RemoveMember", <<MultisigMeta>> \o signers,
                        [NoArgs EXCEPT !.key = member],
                        remove_member(<<MultisigMeta>> \o signers, member))

Execute ==
    /\ last.op = "none"
    /\ \E signers \in SignerLists, recipient \in {RecipientId}, amount \in Amounts :
        /\ MultisigDecoded.state.nonce < MaxNonce
        /\ MultisigStep("Execute", <<MultisigMeta>> \o signers,
                        [NoArgs EXCEPT !.key = recipient, !.amount = amount],
                        execute(<<MultisigMeta>> \o signers, recipient, amount))

---------------------------------------------------------------------------
(* Inputs of the seed constructor *)

TreasuryTag == <<116, 114, 101, 97, 115, 117, 114, 121, 95, 115, 116, 97, 116, 101>>

\* Tags of every length up to MaxTagLen, of one repeated byte, and the tag of
\* the treasury state.
Tags ==
    {[i \in 1..n |-> b] : n \in 0..MaxTagLen, b \in {1, 65, 97, 127}} \cup {TreasuryTag}

ConstSeed ==
    /\ last.op = "none"
    /\ \E tag \in Tags :
        last' = Record("ConstSeed", <<>>, [NoArgs EXCEPT !.key = tag], const_seed(tag))
    /\ UNCHANGED <<treasury, multisig, first_auth, a_signed, succ, treasury_claims, vaults_created>>

\* The seed lists the tool is given: those of the IDL, and lists it refuses.
SeedLists ==
    {IdlTreasuryStateSeeds, IdlVaultHoldingSeeds,
     <<>>, IdlTreasuryStateSeeds \o IdlVaultHoldingSeeds,
     <<IdlSeedArg("amount")>>,
     <<IdlSeedConst([i \in 1..(IdLen + 1) |-> 97])>>,
     <<IdlSeedAccount("vault_holding")>>}

\* The accounts resolved before the PDA: none, or the token definition given
\* on the command line, alone or with the treasury state resolved before it.
AccountMaps ==
    {[n \in AccountNames |-> Unresolved]}
        \cup {[n \in AccountNames |-> IF n = "token_definition" THEN d ELSE Unresolved] :
                d \in DefIds}
        \cup {[n \in AccountNames |->
                    IF n = "token_definition" THEN d
                    ELSE IF n = "treasury_state_acct"
                         THEN compute_treasury_state_pda(TreasuryProgramId)
                         ELSE Unresolved] : d \in DefIds}

ProgramIds == {TreasuryProgramId, TokenProgramId, DefaultProgramId}

ResolvePda ==
    /\ last.op = "none"
    /\ \E seeds \in SeedLists, program_id \in ProgramIds, account_map \in AccountMaps :
        last' = Record("ResolvePda", <<>>,
                       [seeds |-> seeds, program_id |-> program_id, account_map |-> account_map],
                       compute_pda_from_seeds(seeds, program_id, account_map))
    /\ UNCHANGED <<treasury, multisig, first_auth, a_signed, succ, treasury_claims, vaults_created>>

---------------------------------------------------------------------------
(* Specifications *)

NoCall == Record("none", <<>>, NoArgs, Err("none", 0))

Init ==
    /\ treasury = DefaultAccount
    /\ multisig = DefaultAccount
    /\ last = NoCall
    /\ first_auth = {}
    /\ a_signed = FALSE
    /\ succ = 0
    /\ treasury_claims = 0
    /\ vaults_created = 0

\* The transaction is over: the next one starts from the committed accounts.
EndTransaction ==
    /\ last.op # "none"
    /\ last' = NoCall
    /\ UNCHANGED <<treasury, multisig, first_auth, a_signed, succ, treasury_claims, vaults_created>>

VaultNext == CreateVault \/ Send \/ Deposit \/ DepositHandle \/ EndTransaction

VaultSpec == Init /\ [][VaultNext]_vars

\* The vault instructions with the history of the first authorized set.
AuthorityNext == TrackedCreateVault \/ TrackedSend \/ TrackedDeposit \/ EndTransaction

AuthoritySpec == Init /\ [][AuthorityNext]_vars

MultisigNext ==
    CreateMultisig \/ AddMember \/ RemoveMember \/ ChangeThreshold \/ Execute
        \/ EndTransaction

MultisigSpec == Init /\ [][MultisigNext]_vars

\* The seed constructor applied to every tag.
SeedNext == ConstSeed \/ ResolvePda \/ EndTransaction

SeedSpec == Init /\ [][SeedNext]_vars

\* Every instruction of the program.  A vault instruction reads and writes the
\* treasury account only and a multisig instruction the multisig account only,
\* so a run is taken on one of the two accounts while the other is untouched.
ProgramNext ==
    \/ multisig = DefaultAccount /\ VaultNext
    \/ treasury = DefaultAccount /\ MultisigNext

ProgramSpec == Init /\ [][ProgramNext]_vars

---------------------------------------------------------------------------
(* Properties *)

LastTreasuryDecoded == FromSliceTreasuryState(last.pre_states[1].account.data)

NothingReturned == last.out.post_states = <<>> /\ last.out.chained_calls = <<>>

\* C1: once the first CreateVault has fixed the authorized set A, no Send
\* succeeds as long as no member of A has been passed with is_authorized.
OnlyFirstAuthorityMovesFunds ==
    (last.op = "Send" /\ first_auth # {} /\ ~a_signed) => ~last.out.ok

\* C2 as stated: Send succeeds only for a listed signer whose is_authorized
\* flag is set, and every other call fails with Unauthorized, returning nothing.
SendElseUnauthorized ==
    last.op = "Send" =>
        LET signer == last.pre_states[4]
            allowed == /\ LastTreasuryDecoded.ok
                       /\ signer.account_id \in Range(LastTreasuryDecoded.state.authorized_accounts)
                       /\ signer.is_authorized
        IN /\ last.out.ok => allowed
           /\ ~allowed => (last.out.err = "Unauthorized" /\ NothingReturned)

\* C2 as amended: Send succeeds only for a listed signer whose is_authorized
\* flag is set; on a treasury state that decodes every other call fails with
\* Unauthorized, on one that does not decode every call fails with a
\* DeserializationError for account 0; a failure returns nothing.
SendGate ==
    last.op = "Send" =>
        LET signer == last.pre_states[4]
            listed == signer.account_id \in Range(LastTreasuryDecoded.state.authorized_accounts)
        IN /\ last.out.ok => (LastTreasuryDecoded.ok /\ listed /\ signer.is_authorized)
           /\ (LastTreasuryDecoded.ok /\ ~(listed /\ signer.is_authorized))
                => (last.out.err = "Unauthorized" /\ NothingReturned)
           /\ ~LastTreasuryDecoded.ok
                => (last.out.err = "DeserializationError" /\ last.out.account_index = 0
                    /\ NothingReturned)

SendGateWitness ==
    /\ last.op = "Send"
    /\ LastTreasuryDecoded.ok
    /\ last.pre_states[4].account_id \in Range(LastTreasuryDecoded.state.authorized_accounts)
    /\ ~last.pre_states[4].is_authorized
    /\ last.out.err = "Unauthorized"

\* The arguments of a mutating multisig call are valid for the state before it.
ValidArgs ==
    CASE last.op = "AddMember" ->
            /\ last.args.key \notin Range(last.before.members)
            /\ last.before.member_count < MemberLimit
      [] last.op = "RemoveMember" -> last.args.key \in Range(last.before.members)
      [] last.op = "ChangeThreshold" ->
            /\ 1 <= last.args.threshold
            /\ last.args.threshold <= last.before.member_count
      [] OTHER -> TRUE

GateCase ==
    /\ last.op \in Mutating
    /\ last.decoded
    /\ last.before.threshold <= last.before.member_count
    /\ ValidArgs

NonceCountsSuccesses ==
    /\ MultisigDecoded.ok => MultisigDecoded.state.nonce = succ
    /\ (last.op \in Mutating /\ last.decoded) =>
            MultisigDecoded.state.nonce
                = last.before.nonce + (IF last.out.ok THEN 1 ELSE 0)

NonceWitness ==
    /\ last.op = "AddMember"
    /\ last.out.ok
    /\ last.before.nonce = 1
    /\ MultisigDecoded.state.nonce = 2

\* C5: in every initialized multisig state 1 <= threshold <= member_count.
ThresholdWithinMembers ==
    MultisigDecoded.ok =>
        /\ 1 <= MultisigDecoded.state.threshold
        /\ MultisigDecoded.state.threshold <= MultisigDecoded.state.member_count

\* C6: in every initialized multisig state the members are pairwise
\* different, member_count is their number, and it is at most 10.
MembersUniqueAndCounted ==
    MultisigDecoded.ok =>
        LET members == MultisigDecoded.state.members
        IN /\ \A i, j \in 1..Len(members) : members[i] = members[j] => i = j
           /\ MultisigDecoded.state.member_count = Len(members)
           /\ MultisigDecoded.state.member_count <= MemberLimit

AddsPresentMember ==
    /\ last.op = "AddMember"
    /\ last.decoded
    /\ last.args.key \in Range(last.before.members)

\* C7 as stated: adding a key that is already a member fails with
\* DuplicateMember whatever the signers are, and changes nothing.
DuplicateAlwaysReported ==
    AddsPresentMember =>
        /\ last.out.err = "DuplicateMember"
        /\ MultisigDecoded.state = last.before

\* C7 as amended: adding a key that is already a member always fails and
\* changes nothing; the failure is DuplicateMember exactly when a signer
\* account is passed and the signer gate passes, otherwise it is the failure
\* of the account list or of the signer gate.
DuplicateRejected ==
    AddsPresentMember =>
        /\ ~last.out.ok
        /\ MultisigDecoded.state = last.before
        /\ last.out.err = "DuplicateMember"
            <=> (Len(last.pre_states) >= 2 /\ last.valid >= last.before.threshold)
        /\ last.out.err \in {"DuplicateMember", "InsufficientSignatures", "MalformedAccountList"}

DuplicateWitness ==
    /\ AddsPresentMember
    /\ last.before.threshold = 2
    /\ last.valid = 1
    /\ last.out.err = "InsufficientSignatures"

\* C8: a successful CreateVault, Send, Deposit, AddMember or ChangeThreshold
\* returns as many post-states as it was given pre-states.
OnePostStatePerPreState ==
    (last.op \in {"CreateVault", "Send", "Deposit", "AddMember", "ChangeThreshold"}
        /\ last.out.ok)
        => Len(last.out.post_states) = Len(last.pre_states)

\* C9: CreateVault with no authorized account fails with NoAuthorizedAccounts
\* on every treasury state, returns nothing and leaves the treasury as it was.
EmptyAuthorizedRejected ==
    (last.op = "CreateVault" /\ last.args.authorized_accounts = <<>>) =>
        /\ last.out.err = "NoAuthorizedAccounts"
        /\ NothingReturned
        /\ treasury = last.pre_states[1].account

EmptyAuthorizedWitness ==
    /\ last.op = "CreateVault"
    /\ last.args.authorized_accounts = <<>>
    /\ LastTreasuryDecoded.ok
    /\ LastTreasuryDecoded.state.vault_count = 1
    /\ last.out.err = "NoAuthorizedAccounts"

\* C10: an account whose is_authorized flag CreateVault or Send raises in a
\* chained call is the account derived from this program and the seed
\* attached to that call.
DelegatesOnlyOwnPda ==
    last.op \in {"CreateVault", "Send"} =>
        \A c \in 1..Len(last.out.chained_calls) :
            LET call == last.out.chained_calls[c]
            IN \A i \in 1..Len(call.pre_states) :
                (/\ call.pre_states[i].is_authorized
                 /\ \E j \in 1..Len(last.pre_states) :
                        /\ last.pre_states[j].account_id = call.pre_states[i].account_id
                        /\ ~last.pre_states[j].is_authorized)
                    => /\ Len(call.pda_seeds) = 1
                       /\ call.pre_states[i].account_id
                            = Derive(TreasuryProgramId, call.pda_seeds[1])

VaultOps == {"CreateVault", "Send", "Deposit", "DepositHandle"}

MultisigOps == {"CreateMultisig", "AddMember", "RemoveMember", "ChangeThreshold", "Execute"}

WrongCountIsMalformed ==
    (last.op \in {"Deposit", "DepositHandle"} /\ Len(last.pre_states) # 3) =>
        /\ ~last.out.ok
        /\ last.out.err = "MalformedAccountList"

\* C12: no handler aborts: whatever fails is returned as an error value.
FailuresAreReturned == last.op # "none" => ~last.out.panic

\* The signer gate of the last call was reached and passed.
GatePassed ==
    /\ last.decoded
    /\ Len(last.pre_states) >= 2
    /\ last.valid >= last.before.threshold

\* C14: with the signer gate passed, ChangeThreshold succeeds exactly when
\* 1 <= new_threshold <= member_count and then stores new_threshold; otherwise
\* it fails with InvalidThreshold and leaves threshold and nonce as they were.
ChangeThresholdBounds ==
    (last.op = "ChangeThreshold" /\ GatePassed) =>
        LET in_range == /\ 1 <= last.args.threshold
                        /\ last.args.threshold <= last.before.member_count
        IN /\ last.out.ok <=> in_range
           /\ in_range => MultisigDecoded.state.threshold = last.args.threshold
           /\ ~in_range =>
                /\ last.out.err = "InvalidThreshold"
                /\ MultisigDecoded.state.threshold = last.before.threshold
                /\ MultisigDecoded.state.nonce = last.before.nonce

ChangeThresholdWitness ==
    /\ last.op = "ChangeThreshold"
    /\ GatePassed
    /\ last.before.member_count = 2
    /\ last.args.threshold = 3
    /\ last.out.err = "InvalidThreshold"

ChangeThresholdAtCount ==
    /\ last.op = "ChangeThreshold"
    /\ last.before.member_count = 2
    /\ last.before.threshold = 1
    /\ last.args.threshold = 2
    /\ last.out.ok

Handler(op, accounts, args) ==
    CASE op = "CreateVault" ->
            create_vault(accounts[1], accounts[2], accounts[3], TokenName, args.amount,
                         TokenProgramId, args.authorized_accounts)
      [] op = "Send" ->
            send(accounts[1], accounts[2], accounts[3], accounts[4], args.amount,
                 TokenProgramId)
      [] op = "Deposit" ->
            deposit(accounts[1], accounts[2], accounts[3], args.amount, TokenProgramId)
      [] op = "DepositHandle" -> deposit_handle(accounts, args.amount, TokenProgramId)
      [] op = "CreateMultisig" ->
            create_multisig(accounts, args.threshold, args.authorized_accounts)
      [] op = "AddMember" -> add_member(accounts, args.key)
      [] op = "ChangeThreshold" -> change_threshold(accounts, args.threshold)
      [] op = "RemoveMember" -> remove_member(accounts, args.key)
      [] op = "Execute" -> execute(accounts, args.key, args.amount)

Without(seq, i) == SubSeq(seq, 1, i - 1) \o SubSeq(seq, i + 1, Len(seq))

\* The signer account at position i is one the count leaves out: it is not
\* flagged is_authorized, or its id is not a member.
Ignored(i) ==
    \/ ~last.pre_states[i].is_authorized
    \/ last.pre_states[i].account_id \notin Range(last.before.members)

SameOutcome(i) ==
    LET out == Handler(last.op, Without(last.pre_states, i), last.args)
    IN /\ out.ok = last.out.ok
       /\ out.post_states = last.out.post_states

AddMemberAppends ==
    (last.op = "AddMember" /\ last.decoded) =>
        /\ last.out.ok =>
            /\ MultisigDecoded.state.members = Append(last.before.members, last.args.key)
            /\ MultisigDecoded.state.member_count = last.before.member_count + 1
            /\ MultisigDecoded.state.nonce = last.before.nonce + 1
            /\ MultisigDecoded.state.threshold = last.before.threshold
        /\ last.args.key \in Range(last.before.members) =>
            /\ ~last.out.ok
            /\ MultisigDecoded.state.nonce = last.before.nonce

\* The scenario of the claim: members [A, B, C], threshold 2, nonce 0,
\* AddMember(D) signed by A and B.
AddMemberScenario ==
    /\ last.op = "AddMember"
    /\ last.before = [threshold |-> 2, members |-> <<Key(1), Key(2), Key(3)>>,
                      member_count |-> 3, nonce |-> 0]
    /\ AuthorizedSigners(last.pre_states) = <<Key(1), Key(2)>>
    /\ last.args.key = Key(MemberLimit + 1)
    /\ MultisigDecoded.state
         = [threshold |-> 2, members |-> <<Key(1), Key(2), Key(3), Key(MemberLimit + 1)>>,
            member_count |-> 4, nonce |-> 1]

AddMemberScenarioSecond ==
    /\ last.op = "AddMember"
    /\ last.before.members = <<Key(1), Key(2), Key(3), Key(MemberLimit + 1)>>
    /\ AuthorizedSigners(last.pre_states) = <<Key(1), Key(2), Key(3)>>
    /\ last.args.key = Key(MemberLimit + 1)
    /\ last.out.err = "DuplicateMember"
    /\ MultisigDecoded.state.nonce = 1

\* C19: on a multisig with member_count 10, AddMember of a key that is no
\* member fails with MemberLimitExceeded although the signer gate passes, and
\* members, member_count and nonce stay as they were.
MemberLimitEnforced ==
    (/\ last.op = "AddMember"
     /\ GatePassed
     /\ last.before.member_count = MemberLimit
     /\ last.args.key \notin Range(last.before.members)) =>
        /\ last.out.err = "MemberLimitExceeded"
        /\ MultisigDecoded.state = last.before

MemberLimitWitness ==
    /\ last.op = "AddMember"
    /\ GatePassed
    /\ last.before.threshold = 2
    /\ last.before.member_count = MemberLimit
    /\ Len(last.before.members) = MemberLimit
    /\ last.args.key = Key(MemberLimit + 1)
    /\ last.out.err = "MemberLimitExceeded"

\* C20: a successful CreateVault raises vault_count by one, stores the list it
\* was given as authorized_accounts, and marks the treasury post-state as
\* newly claimed exactly when the treasury account it was passed is the
\* default account; the treasury account is claimed once, by the first
\* successful CreateVault, and never again.
CreateVaultClaimsOnce ==
    /\ (last.op = "CreateVault" /\ last.out.ok) =>
            LET fresh == last.pre_states[1].account = DefaultAccount
                before == IF fresh THEN DefaultTreasuryState ELSE LastTreasuryDecoded.state
                after == FromSliceTreasuryState(treasury.data)
            IN /\ after.ok
               /\ after.state.vault_count = before.vault_count + 1
               /\ after.state.authorized_accounts = last.args.authorized_accounts
               /\ last.out.post_states[1].claimed <=> fresh
    /\ treasury_claims = (IF treasury = DefaultAccount THEN 0 ELSE 1)
    /\ (treasury = DefaultAccount) <=> (VaultCount = 0)

CreateVaultAgainWitness ==
    /\ last.op = "CreateVault"
    /\ last.out.ok
    /\ last.pre_states[1].account # DefaultAccount
    /\ ~last.out.post_states[1].claimed
    /\ VaultCount = 2
    /\ treasury_claims = 1

\* C21: CreateMultisig fails when the threshold is above the number of
\* members given and leaves the account untouched; otherwise the account
\* holds the given threshold and members, member_count = members.len() and
\* nonce 0.
CreateMultisigInitializes ==
    last.op = "CreateMultisig" =>
        LET threshold == last.args.threshold
            members == last.args.authorized_accounts
        IN IF threshold > Len(members)
           THEN ~last.out.ok /\ NothingReturned /\ multisig = DefaultAccount
           ELSE /\ last.out.ok
                /\ MultisigDecoded.ok
                /\ MultisigDecoded.state
                     = [threshold |-> threshold, members |-> members,
                        member_count |-> Len(members), nonce |-> 0]

CreateMultisigWitness ==
    /\ last.op = "CreateMultisig"
    /\ last.args.threshold = 3
    /\ Len(last.args.authorized_accounts) = 3
    /\ last.out.ok
    /\ MultisigDecoded.state.member_count = 3

CreateMultisigRefusedWitness ==
    /\ last.op = "CreateMultisig"
    /\ last.args.threshold = 3
    /\ Len(last.args.authorized_accounts) = 2
    /\ ~last.out.ok

\* C22: with the signer gate passed, RemoveMember of a key that is no member
\* fails with NotAMember and changes nothing; of a member, it takes one
\* occurrence of exactly that key out, leaves the other members in their
\* order, lowers member_count by one and raises nonce by one.
RemoveMemberRemoves ==
    (last.op = "RemoveMember" /\ last.decoded /\ last.valid >= last.before.threshold) =>
        LET before == last.before
            after == MultisigDecoded.state
        IN IF last.args.key \notin Range(before.members)
           THEN last.out.err = "NotAMember" /\ after = before
           ELSE /\ last.out.ok
                /\ \E i \in 1..Len(before.members) :
                        /\ before.members[i] = last.args.key
                        /\ after.members = Without(before.members, i)
                /\ after.member_count = before.member_count - 1
                /\ after.nonce = before.nonce + 1
                /\ after.threshold = before.threshold

RemoveMemberWitness ==
    /\ last.op = "RemoveMember"
    /\ last.before.members = <<Key(1), Key(2), Key(3)>>
    /\ last.args.key = Key(2)
    /\ last.out.ok
    /\ MultisigDecoded.state.members = <<Key(1), Key(3)>>

\* C23: Execute with the signer gate passed returns the transfer of amount to
\* recipient and raises nonce by one; with fewer valid signers than the
\* threshold it fails with InsufficientSignatures, returns no transfer and
\* leaves the nonce as it was.
ExecuteGated ==
    (last.op = "Execute" /\ last.decoded) =>
        IF last.valid >= last.before.threshold
        THEN /\ last.out.ok
             /\ last.out.chained_calls
                  = <<[recipient |-> last.args.key, amount |-> last.args.amount]>>
             /\ MultisigDecoded.state = [last.before EXCEPT !.nonce = @ + 1]
        ELSE /\ last.out.err = "InsufficientSignatures"
             /\ NothingReturned
             /\ MultisigDecoded.state = last.before

ExecuteRefusedWitness ==
    /\ last.op = "Execute"
    /\ last.decoded
    /\ last.before.threshold = 2
    /\ last.valid = 1
    /\ last.args.amount = 1000
    /\ last.out.err = "InsufficientSignatures"

ExecuteWitness ==
    /\ last.op = "Execute"
    /\ last.before.threshold = 2
    /\ last.valid = 2
    /\ last.args.amount = 1000
    /\ last.out.ok

\* C25: the constant seed of a tag of at most 32 bytes is the 32-byte value
\* that starts with the tag and is zero after it; a longer tag is rejected
\* with an error.  The seed of the treasury state is the constant seed of
\* its tag.
ConstSeedPads ==
    /\ last.op = "ConstSeed" =>
            LET tag == last.args.key
            IN IF Len(tag) <= 32
               THEN /\ last.out.ok
                    /\ Len(last.out.bytes) = 32
                    /\ SubSeq(last.out.bytes, 1, Len(tag)) = tag
                    /\ \A i \in (Len(tag) + 1)..32 : last.out.bytes[i] = 0
               ELSE ~last.out.ok /\ last.out.bytes = <<>>
    /\ (last.op = "ConstSeed" /\ last.args.key = TreasuryTag) =>
            last.out.bytes = TREASURY_STATE_SEED

ConstSeedFullWitness ==
    /\ last.op = "ConstSeed"
    /\ Len(last.args.key) = 32
    /\ last.out.ok
    /\ last.out.bytes = last.args.key

ConstSeedRejectedWitness ==
    /\ last.op = "ConstSeed"
    /\ Len(last.args.key) = 33
    /\ ~last.out.ok

\* C28: ChangeThreshold of a call that passes signer accounts compares the
\* valid signers with the threshold stored before the call: with fewer it
\* fails with InsufficientSignatures although they reach new_threshold, and
\* with exactly as many it succeeds in raising the threshold to any value up
\* to member_count.
GateUsesStoredThreshold ==
    (last.op = "ChangeThreshold" /\ last.decoded /\ Len(last.pre_states) >= 2) =>
        /\ last.valid < last.before.threshold =>
                /\ last.out.err = "InsufficientSignatures"
                /\ MultisigDecoded.state = last.before
        /\ (/\ last.valid = last.before.threshold
            /\ last.args.threshold > last.before.threshold
            /\ last.args.threshold <= last.before.member_count) =>
                /\ last.out.ok
                /\ MultisigDecoded.state.threshold = last.args.threshold

LoweringWitness ==
    /\ last.op = "ChangeThreshold"
    /\ last.before.threshold = 2
    /\ last.args.threshold = 1
    /\ last.valid = 1
    /\ last.out.err = "InsufficientSignatures"

RaisingWitness ==
    /\ last.op = "ChangeThreshold"
    /\ last.before.threshold = 1
    /\ last.args.threshold = 3
    /\ last.valid = 1
    /\ last.out.ok

\* The accounts at the address of the vault of the first token definition.
FirstVaultCandidates ==
    {vh \in VaultCandidates :
        /\ vh.account_id = compute_vault_holding_pda(TreasuryProgramId, Key(21))
        /\ Len(vh.account.data) \in {VaultDataMin - 1, Len(HoldingData(Key(21), 0))}}

\* C29: after a successful CreateVault with the list A2 on a treasury whose
\* list was A1, Send on the committed treasury refuses with Unauthorized every
\* signer that is in A1 and not in A2, and accepts every signer of A2 whose
\* is_authorized flag is set (it then fails only on a vault holding whose
\* data is too short).
CreateVaultReplacesAuthorized ==
    (last.op = "CreateVault" /\ last.out.ok) =>
        LET A1 == IF last.pre_states[1].account = DefaultAccount THEN {}
                  ELSE Range(LastTreasuryDecoded.state.authorized_accounts)
            A2 == Range(last.args.authorized_accounts)
            recipient == AccountWithMetadata(TokenOwned(HoldingData(Key(21), 0)), FALSE,
                                             RecipientId)
        IN \A signer \in KeyAccounts(BOOLEAN), vh \in FirstVaultCandidates :
            LET out == send(TreasuryMeta, vh, recipient, signer, 1000, TokenProgramId)
            IN /\ signer.account_id \in A1 \ A2 =>
                    out.err = "Unauthorized" /\ out.chained_calls = <<>>
               /\ (signer.account_id \in A2 /\ signer.is_authorized) =>
                    \/ out.ok
                    \/ out.err = "DeserializationError" /\ out.account_index = 1

ReplacedWitness ==
    /\ last.op = "CreateVault"
    /\ last.out.ok
    /\ last.pre_states[1].account # DefaultAccount
    /\ LastTreasuryDecoded.state.authorized_accounts = <<Key(1)>>
    /\ last.args.authorized_accounts = <<Key(2)>>

\* The same on the Send calls that are made: a signer of the list stored last
\* is accepted, a signer of no list or of a replaced list is not.
SendAfterReplaceWitness ==
    /\ last.op = "Send"
    /\ LastTreasuryDecoded.ok
    /\ LastTreasuryDecoded.state.vault_count = 2
    /\ LastTreasuryDecoded.state.authorized_accounts = <<Key(2)>>
    /\ last.pre_states[4].account_id = Key(1)
    /\ last.pre_states[4].is_authorized
    /\ last.out.err = "Unauthorized"

\* C30: in every initialized treasury state authorized_accounts is not empty
\* and vault_count is the number of CreateVault calls that have succeeded,
\* which is at least 1.
TreasuryStateInvariant ==
    treasury # DefaultAccount =>
        LET dec == FromSliceTreasuryState(treasury.data)
        IN /\ dec.ok
           /\ dec.state.authorized_accounts # <<>>
           /\ dec.state.vault_count = vaults_created
           /\ dec.state.vault_count >= 1

TreasuryStateWitness ==
    /\ last.op = "Deposit"
    /\ treasury # DefaultAccount
    /\ vaults_created = 2
    /\ VaultCount = 2

GuestOps == {"CreateVault", "Send", "Deposit"}

\* C31: a successful Send or Deposit returns every account of its pre-states
\* as it was, none marked claimed; a successful CreateVault returns the token
\* definition and the vault holding as they were and changes only the data of
\* the treasury-state account.  No post-state carries another balance than
\* its pre-state: what moves is in the one chained call.
VaultFrame ==
    (last.op \in GuestOps /\ last.out.ok) =>
        /\ Len(last.out.post_states) = Len(last.pre_states)
        /\ \A i \in 1..Len(last.pre_states) :
            \/ last.op = "CreateVault" /\ i = 1
            \/ last.out.post_states[i] =
                    [account |-> last.pre_states[i].account, claimed |-> FALSE]
        /\ LET pre == last.pre_states[1].account
               post == last.out.post_states[1].account
           IN /\ post.balance = pre.balance
              /\ post.nonce = pre.nonce
              /\ post.program_owner = pre.program_owner
        /\ Len(last.out.chained_calls) = 1

SendFrameWitness ==
    /\ last.op = "Send"
    /\ last.out.ok
    /\ last.out.post_states[2].account.data = last.pre_states[2].account.data
    /\ last.pre_states[2].account.data # <<>>
    /\ last.args.amount = 1000

CreateVaultFrameWitness ==
    /\ last.op = "CreateVault"
    /\ last.out.ok
    /\ last.out.post_states[1].account.data # last.pre_states[1].account.data
    /\ last.out.post_states[3].account = last.pre_states[3].account

\* The signer of the last Send is in the stored list and has signed.
SignerAccepted ==
    /\ LastTreasuryDecoded.ok
    /\ last.pre_states[4].account_id \in Range(LastTreasuryDecoded.state.authorized_accounts)
    /\ last.pre_states[4].is_authorized

\* C32: Send with an accepted signer fails with DeserializationError for
\* account 1 and returns no chained call when the data of the vault holding
\* has fewer than 33 bytes; with 33 bytes or more it succeeds and the PDA
\* seed of its chained call is the 32 bytes that follow the first byte.
SendChecksVaultData ==
    (last.op = "Send" /\ SignerAccepted) =>
        LET vault_data == last.pre_states[2].account.data
        IN IF Len(vault_data) < 33
           THEN /\ ~last.out.ok
                /\ last.out.err = "DeserializationError"
                /\ last.out.account_index = 1
                /\ last.out.chained_calls = <<>>
           ELSE /\ last.out.ok
                /\ last.out.chained_calls[1].pda_seeds =
                        <<[i \in 1..32 |-> vault_data[i + 1]]>>

ShortVaultDataWitness ==
    /\ last.op = "Send"
    /\ SignerAccepted
    /\ Len(last.pre_states[2].account.data) = 32
    /\ last.out.err = "DeserializationError"

MinimalVaultDataWitness ==
    /\ last.op = "Send"
    /\ SignerAccepted
    /\ Len(last.pre_states[2].account.data) = 33
    /\ last.out.ok

\* C33: Send and Deposit on a treasury-state account that CreateVault never
\* initialized (the default account) fail and return no chained call.
UninitializedTreasuryRefused ==
    (last.op \in {"Send", "Deposit"} /\ last.pre_states[1].account = DefaultAccount) =>
        /\ ~last.out.ok
        /\ last.out.chained_calls = <<>>

\* The Send half of C33 holds: the default account's empty data does not decode.
UninitializedSendRefused ==
    (last.op = "Send" /\ last.pre_states[1].account = DefaultAccount) =>
        /\ ~last.out.ok
        /\ last.out.err = "DeserializationError"
        /\ last.out.account_index = 0
        /\ last.out.chained_calls = <<>>

\* CreateVault for the token definition td on the vault address of vh, as the
\* first call on a treasury that lists the first key.
CreatedFor(td, vh) ==
    create_vault(AccountWithMetadata(DefaultAccount, FALSE,
                                     compute_treasury_state_pda(TreasuryProgramId)),
                 td, AccountWithMetadata(DefaultAccount, FALSE, vh.account_id),
                 TokenName, 1000000, TokenProgramId, <<Key(1)>>)

\* C34: a successful Send on the vault PDA of a token definition D, whose
\* holding data stores D's id in bytes 1..33, attaches the PDA seed that
\* CreateVault for D attaches, the 32 bytes of D's id, and both chained calls
\* pass the account derive(treasury_program_id, D) as the authorized vault.
SendSeedMatchesCreateVault ==
    (last.op = "Send" /\ last.out.ok) =>
        \A td \in TokenDefinitions :
            LET vh == last.pre_states[2]
                sent == last.out.chained_calls[1]
                created == CreatedFor(td, vh).chained_calls[1]
            IN (/\ vh.account_id = compute_vault_holding_pda(TreasuryProgramId, td.account_id)
                /\ [i \in 1..32 |-> vh.account.data[i + 1]] = td.account_id) =>
                    /\ sent.pda_seeds = created.pda_seeds
                    /\ sent.pda_seeds = <<td.account_id>>
                    /\ Derive(TreasuryProgramId, sent.pda_seeds[1]) = sent.pre_states[1].account_id
                    /\ sent.pre_states[1].account_id = created.pre_states[2].account_id
                    /\ sent.pre_states[1].is_authorized
                    /\ created.pre_states[2].is_authorized

SendSeedWitness ==
    /\ last.op = "Send"
    /\ last.out.ok
    /\ last.pre_states[2].account_id = compute_vault_holding_pda(TreasuryProgramId, Key(22))
    /\ last.out.chained_calls[1].pda_seeds = <<Key(22)>>
    /\ \E td \in TokenDefinitions :
        CreatedFor(td, last.pre_states[2]).chained_calls[1].pda_seeds = <<Key(22)>>

\* Byte i (from 1) of the little-endian u128 of a number below 2^24.
LeByte(n, i) == IF i <= 3 THEN (n \div (256 ^ (i - 1))) % 256 ELSE 0

\* The bytes a chained call carries: serde writes their number, then the bytes.
Payload(chained_call) == Tail(chained_call.instruction_data)

\* The program the chained call of the last call goes to when the instruction
\* names the program p.
TargetFor(p) ==
    LET pre == last.pre_states
        out == CASE last.op = "CreateVault" ->
                        create_vault(pre[1], pre[2], pre[3], TokenName, last.args.amount, p,
                                     last.args.authorized_accounts)
                 [] last.op = "Send" -> send(pre[1], pre[2], pre[3], pre[4], last.args.amount, p)
                 [] last.op = "Deposit" -> deposit(pre[1], pre[2], pre[3], last.args.amount, p)
    IN out.chained_calls[1].program_id

\* C35: a successful CreateVault, Send or Deposit returns exactly one chained
\* call, to the token program the instruction names, with two pre-state
\* accounts and 23 bytes: CreateVault passes [token_definition, vault] with
\* byte 0 = 0x00, the supply little-endian in bytes 1..17 and the name in
\* bytes 17..23; Send passes [vault, recipient] and Deposit [sender, vault]
\* with byte 0 = 0x01 and the amount little-endian in bytes 1..17.  Only the
\* vault of CreateVault and Send has its is_authorized flag raised; the
\* recipient goes on as it came and the signer is not passed on.
ChainedCallShape ==
    (last.op \in GuestOps /\ last.out.ok) =>
        LET pre == last.pre_states
            cc == last.out.chained_calls[1]
            payload == Payload(cc)
        IN /\ Len(last.out.chained_calls) = 1
           /\ cc.program_id = TokenProgramId
           /\ TargetFor(TreasuryProgramId) = TreasuryProgramId
           /\ Len(cc.pre_states) = 2
           /\ Head(cc.instruction_data) = 23
           /\ Len(payload) = 23
           /\ \A i \in 1..16 : payload[1 + i] = LeByte(last.args.amount, i)
           /\ last.op = "CreateVault" =>
                /\ payload[1] = 0
                /\ [i \in 1..6 |-> payload[17 + i]] = TokenName
                /\ cc.pre_states = <<pre[2], [pre[3] EXCEPT !.is_authorized = TRUE]>>
           /\ last.op = "Send" =>
                /\ payload[1] = 1
                /\ cc.pre_states = <<[pre[2] EXCEPT !.is_authorized = TRUE], pre[3]>>
                /\ \A i \in 1..2 : cc.pre_states[i].account_id # pre[4].account_id
           /\ last.op = "Deposit" =>
                /\ payload[1] = 1
                /\ cc.pre_states = <<pre[2], pre[3]>>

SendCallShapeWitness ==
    /\ last.op = "Send"
    /\ last.out.ok
    /\ last.args.amount = 1000
    /\ Payload(last.out.chained_calls[1])[2] = 232
    /\ Payload(last.out.chained_calls[1])[3] = 3
    /\ ~last.out.chained_calls[1].pre_states[2].is_authorized

CreateVaultCallShapeWitness ==
    /\ last.op = "CreateVault"
    /\ last.out.ok
    /\ Payload(last.out.chained_calls[1])[2] = 64
    /\ Payload(last.out.chained_calls[1])[3] = 66
    /\ Payload(last.out.chained_calls[1])[4] = 15
    /\ last.out.chained_calls[1].pre_states[2].is_authorized

\* C36: a successful AddMember leaves the threshold as it was and a successful
\* ChangeThreshold leaves members and member_count as they were; either
\* returns the multisig-state account alone, changed in its data only and not
\* marked claimed, and no chained call.
MultisigFrame ==
    (last.op \in {"AddMember", "ChangeThreshold"} /\ last.out.ok) =>
        /\ last.op = "AddMember" =>
                MultisigDecoded.state.threshold = last.before.threshold
        /\ last.op = "ChangeThreshold" =>
                /\ MultisigDecoded.state.members = last.before.members
                /\ MultisigDecoded.state.member_count = last.before.member_count
        /\ last.out.chained_calls = <<>>
        /\ Len(last.out.post_states) = 1
        /\ ~last.out.post_states[1].claimed
        /\ [last.out.post_states[1].account EXCEPT !.data = <<>>]
                = [last.pre_states[1].account EXCEPT !.data = <<>>]

ThresholdFrameWitness ==
    /\ last.op = "ChangeThreshold"
    /\ last.out.ok
    /\ last.before.member_count = 3
    /\ last.args.threshold = 2
    /\ last.before.threshold = 3
    /\ MultisigDecoded.state.member_count = 3

AddMemberFrameWitness ==
    /\ last.op = "AddMember"
    /\ last.out.ok
    /\ last.before.threshold = 2
    /\ MultisigDecoded.state.threshold = 2
    /\ Len(last.pre_states) = 3

\* The members of a list, each once, in the order of their last occurrence.
RECURSIVE DistinctOf(_)
DistinctOf(seq) ==
    IF seq = <<>> THEN <<>>
    ELSE LET rest == DistinctOf(Tail(seq))
         IN IF Head(seq) \in Range(rest) THEN rest ELSE <<Head(seq)>> \o rest

\* C37: after every successful AddMember, RemoveMember or ChangeThreshold a
\* call signed by all current members, each passed once with
\* is_authorized = TRUE, passes the signer gate.
NeverLockedOut ==
    (last.op \in {"AddMember", "RemoveMember", "ChangeThreshold"} /\ last.out.ok) =>
        LET state == MultisigDecoded.state
            signers == [i \in 1..Len(DistinctOf(state.members)) |->
                            AccountWithMetadata(DefaultAccount, TRUE, DistinctOf(state.members)[i])]
        IN ThresholdMet(count_valid_signers(state, AuthorizedSigners(<<MultisigMeta>> \o signers)),
                        state.threshold)

\* C39: for every program id, the id the tool computes from the IDL's
\* constant seed "treasury_state" is compute_treasury_state_pda(program_id),
\* and the id it computes from the IDL's account seed, with the token
\* definition resolved, is compute_vault_holding_pda(program_id,
\* token_definition_id).
OffChainPdaAgrees ==
    last.op = "ResolvePda" =>
        /\ last.args.seeds = IdlTreasuryStateSeeds =>
            /\ last.out.ok
            /\ last.out.id = compute_treasury_state_pda(last.args.program_id)
        /\ (/\ last.args.seeds = IdlVaultHoldingSeeds
            /\ last.args.account_map["token_definition"] # Unresolved) =>
            /\ last.out.ok
            /\ last.out.id =
                    compute_vault_holding_pda(last.args.program_id,
                                              last.args.account_map["token_definition"])

TreasuryPdaWitness ==
    /\ last.op = "ResolvePda"
    /\ last.args.seeds = IdlTreasuryStateSeeds
    /\ last.args.program_id = TreasuryProgramId
    /\ last.out.ok
    /\ last.out.id = TreasuryMeta.account_id

VaultPdaWitness ==
    /\ last.op = "ResolvePda"
    /\ last.args.seeds = IdlVaultHoldingSeeds
    /\ last.args.program_id = TreasuryProgramId
    /\ last.out.ok
    /\ \E vh \in VaultCandidates : vh.account_id = last.out.id

====
